---- MODULE Spec2Model ----
(***************************************************************************)
(* Model of the local control channel of hypermangle-core                  *)
(* (src/hypermangle-core/src/console.rs) and of its use by auto_main and   *)
(* async_run_router (src/hypermangle-core/src/lib.rs).                     *)
(*                                                                         *)
(* Processes.  Service instances are processes started with `run`; each    *)
(* first probes with does_remote_exist and, when the probe says None,      *)
(* serves and spawns listen_for_commands_inner.  Forwarder clients are     *)
(* processes started with other arguments (send_args_to_remote).  A raw    *)
(* client is any other local process that connects to the socket path.     *)
(*                                                                         *)
(* Connections.  Every client process opens at most one connection, so a   *)
(* connection is named by its client: 1..NFwd are the forwarder / raw      *)
(* clients, NFwd + i is the probe made by instance i.                      *)
(*                                                                         *)
(* The web side of the service has three further parts, each with its own  *)
(* specification: TlsAcceptor::poll_accept (tls.rs), the hot-reload task   *)
(* spawned by py_handle_notify_event (py.rs) and BearerAuth::authorize     *)
(* (bearer.rs).                                                            *)
(***************************************************************************)
EXTENDS Integers, Sequences, FiniteSets, TLC

\* ---- bounds ----
NInst   == 2      \* service instances that may be started
NFwd    == 2      \* forwarder / raw client processes
MaxSend == 2      \* RemoteClient::send calls one handler makes at most
MaxFaults == 1    \* clients that vanish mid-session plus serve failures, in one run

Inst  == 1..NInst
Fwd   == 1..NFwd
Conn  == 1..(NFwd + NInst)
ProbeOf(i) == NFwd + i
\* the channel never looks inside a text: the k-th text a handler sends is
\* named by its position
Text(k) == IF k = 1 THEN "a" ELSE IF k = 2 THEN "b" ELSE "c"

\* std::process::id() of instance i: distinct processes have distinct ids
Pid(i) == 4000 + i

\* ---- BaseCommand ----
NoFrame       == <<>>
IdRequest     == <<"IdRequest">>
IdResponse(p) == <<"IdResponse", p>>
Args(a)       == <<"Args", a>>
Packet(t)     == <<"Packet", t>>
CloseSocket   == <<"CloseSocket">>

\* argument vectors a forwarder may carry; P::try_parse_from accepts some
Argvs == {"status", "bogus"}
TryParseOk(a) == a # "bogus"
ErrText(a)    == "usage"

\* first frames a raw client may write (NoFrame: it writes nothing)
Garbage   == <<"Garbage">>      \* a payload bincode::deserialize rejects
RawFrames == {NoFrame, IdResponse(0), Packet("x"), CloseSocket, Garbage}

VARIABLES
  faults,    \* environment faults so far (bounded by MaxFaults)
  sockFile,  \* 0: no file at the socket path; i: the path names the listener socket made by instance i
  ipc,       \* [Inst -> position of the instance's process / listener task]
  host,      \* [Inst -> state of the serve future that owns the channel sender]
  backlog,   \* [Inst -> sequence of connections waiting in the listener's accept queue]
  cur,       \* [Inst -> connection held by the current loop iteration, 0 when none]
  found,     \* [Inst -> process id does_remote_exist returned, 0 when None or not yet]
  cpc,       \* [Conn -> position of the client process]
  req,       \* [Conn -> first frame the client wrote, NoFrame when none]
  sst,       \* [Conn -> who holds the server end of the stream]
  peer,      \* [Conn -> instance whose listener the client connected to, 0 when none]
  hst,       \* [Conn -> state of the handler (P::execute) dispatched for the connection]
  out,       \* [Conn -> frames the server side wrote to the stream, in order]
  rd,        \* [Conn -> number of frames the client has read]
  stdout,    \* [Conn -> texts the forwarder printed, in order]
  sent,      \* [Conn -> texts the handler passed to RemoteClient::send, in order]
  tx,        \* framing: what a writer is about to write on one stream, in order
  txn,       \* framing: how many of them it has written
  wire,      \* framing: the bytes written on the stream and not yet read
  rx,        \* framing: what recv_msg returned at the other end, in order
  tcpq,      \* tls: TCP connections waiting in the listener's accept queue, in order
  tcli,      \* tls: [TlsClients -> where the client's connection is]
  lwaker,    \* tls: the serve task's waker is registered with the TCP listener
  woken,     \* tls: the serve task is scheduled and will call poll_accept
  tsrv,      \* tls: "running", or "failed" once serve got an error item
  evn,       \* reload: change events of the burst that have arrived
  wkn,       \* reload: tasks of the burst whose sleep has ended
  over,      \* reload: the burst is over
  ovchk,     \* reload: the build checks integer overflow (debug profile)
  base,      \* reload: value of the path's counter before the burst
  pctr,      \* reload: the path's AtomicU8 counter
  handlers,  \* reload: [PyPaths -> the get / post / ws handlers registered]
  loads,     \* reload: calls of load_py_handlers made for the burst
  loader,    \* reload: event whose task made the last call, 0 when none
  lres,      \* reload: result of the last call: "none", "Ok" or "Err"
  atok,      \* auth: the configured api_token
  areq,      \* auth: the request handed to authorize
  ares       \* auth: "none" before authorize ran, then "ok" or "401"

\* the byte-level variables move only in CodecSpec
codecVars == <<tx, txn, wire, rx>>

\* the control-channel variables
ctlVars == <<faults, sockFile, ipc, host, backlog, cur, found, cpc, req, sst, peer, hst, out, rd, stdout, sent>>

\* the variables of the web side move only in TlsSpec, ReloadSpec, AuthSpec
tlsVars  == <<tcpq, tcli, lwaker, woken, tsrv>>
pyVars   == <<evn, wkn, over, ovchk, base, pctr, handlers, loads, loader, lres>>
authVars == <<atok, areq, ares>>
webVars  == <<tlsVars, pyVars, authVars>>

vars == <<faults, sockFile, ipc, host, backlog, cur, found, cpc, req, sst, peer, hst, out, rd, stdout, sent, tx, txn, wire, rx,
          tcpq, tcli, lwaker, woken, tsrv, evn, wkn, over, ovchk, base, pctr, handlers, loads, loader, lres, atok, areq, ares>>

\* ---- the web side before anything happened ----
NTls == 3         \* TCP clients of the TLS acceptor
TlsClients == 1..NTls
PyPaths == {"a.py", "b.py"}
NoHandlers == [get |-> 0, post |-> 0, ws |-> 0]
NoRequest == [path |-> "", auth |-> <<>>, query |-> <<>>]

TlsIdle ==
  /\ tcpq = <<>>
  /\ tcli = [c \in TlsClients |-> "idle"]
  /\ lwaker = FALSE
  /\ woken = FALSE
  /\ tsrv = "off"

PyIdle ==
  /\ evn = 0
  /\ wkn = 0
  /\ over = FALSE
  /\ ovchk = FALSE
  /\ base = 0
  /\ pctr = 0
  /\ handlers = [p \in PyPaths |-> NoHandlers]
  /\ loads = 0
  /\ loader = 0
  /\ lres = "none"

AuthIdle ==
  /\ atok = <<>>
  /\ areq = NoRequest
  /\ ares = "none"

\* the control channel before anything happened
CtlIdle ==
  /\ faults   = 0
  /\ sockFile = 0
  /\ ipc      = [i \in Inst |-> "off"]
  /\ host     = [i \in Inst |-> "off"]
  /\ backlog  = [i \in Inst |-> <<>>]
  /\ cur      = [i \in Inst |-> 0]
  /\ found    = [i \in Inst |-> 0]
  /\ cpc      = [c \in Conn |-> "idle"]
  /\ req      = [c \in Conn |-> NoFrame]
  /\ sst      = [c \in Conn |-> "none"]
  /\ peer     = [c \in Conn |-> 0]
  /\ hst      = [c \in Conn |-> "none"]
  /\ out      = [c \in Conn |-> <<>>]
  /\ rd       = [c \in Conn |-> 0]
  /\ stdout   = [c \in Conn |-> <<>>]
  /\ sent     = [c \in Conn |-> <<>>]

CodecIdle ==
  /\ tx = <<>>
  /\ txn = 0
  /\ wire = <<>>
  /\ rx = <<>>

Init ==
  /\ faults   = 0
  /\ sockFile = 0
  /\ ipc      = [i \in Inst |-> "off"]
  /\ host     = [i \in Inst |-> "off"]
  /\ backlog  = [i \in Inst |-> <<>>]
  /\ cur      = [i \in Inst |-> 0]
  /\ found    = [i \in Inst |-> 0]
  /\ cpc      = [c \in Conn |-> "idle"]
  /\ req      = [c \in Conn |-> NoFrame]
  /\ sst      = [c \in Conn |-> "none"]
  /\ peer     = [c \in Conn |-> 0]
  /\ hst      = [c \in Conn |-> "none"]
  /\ out      = [c \in Conn |-> <<>>]
  /\ rd       = [c \in Conn |-> 0]
  /\ stdout   = [c \in Conn |-> <<>>]
  /\ sent     = [c \in Conn |-> <<>>]
  /\ tx       = <<>>
  /\ txn      = 0
  /\ wire     = <<>>
  /\ rx       = <<>>
  /\ TlsIdle /\ PyIdle /\ AuthIdle

\* ---- the operating system's view of the socket path and of a stream ----

Range(q) == {q[k] : k \in 1..Len(q)}

\* a listener that outlives the loop (kept in a static, or leaked)
ListenerBound_Lingers(i) == ipc[i] \in {"select", "accepted", "handling", "exited"}

\* the LocalSocketListener is a local of listen_for_commands_inner: it exists
\* from the bind until the task ends
ListenerBound(i) == ipc[i] \in {"select", "accepted", "handling"}

\* LocalSocketStream::connect(get_socket_name()): the listener reached, 0 when
\* the path does not exist or no listener is behind it (connection refused)
ConnectTarget == IF sockFile # 0 /\ ListenerBound(sockFile) THEN sockFile ELSE 0

\* the client still holds its end of the stream
ClientOpen(c) == cpc[c] \in {"wait", "raw"}

\* stream.write_all of one frame by the server side: the frame reaches the
\* stream unless the client's end is closed (the error is returned instead)
Write(o, c, f) == IF ClientOpen(c) THEN Append(o, f) ELSE o

\* the server end of the stream is gone: "closed" when the code that held it
\* finished with it, "reset" when it went down with the listener or the runtime
ServerClosed(c) == sst[c] \in {"closed", "reset"}

\* dropping the listener resets the connections still in its accept queue
ResetBacklog(i, s) == [c \in Conn |-> IF c \in Range(backlog[i]) THEN "reset" ELSE s[c]]

\* the ShutdownToken: the mpsc channel whose only sender is owned by the
\* future listen_for_commands returns; receiver.recv() completes only when
\* that sender has been dropped
TokenRetired(i) == host[i] \in {"ended", "down"}

\* The future is `let _sender = sender; pending().await`: it never completes,
\* so with_graceful_shutdown never starts a graceful shutdown and host[i]
\* leaves "serving" only when serve itself fails (HostServeFails).

\* ---- auto_main / does_remote_exist ----

\* a probe that treats a refused connection like the forwarder does (expect)
InstRun_ConnectExpect(i) ==
  /\ ipc[i] = "off"
  /\ ipc' = [ipc EXCEPT ![i] = "aborted"]
  /\ cpc' = [cpc EXCEPT ![ProbeOf(i)] = "failed"]
  /\ UNCHANGED <<faults, sockFile, host, backlog, cur, found, req, sst, peer, hst, out, rd, stdout, sent, codecVars, webVars>>

\* a process started with `run`: does_remote_exist connects and writes
\* IdRequest; a refused connection is None and the process goes on to serve,
\* which spawns listen_for_commands_inner
InstRun(i) ==
  /\ ipc[i] = "off"
  /\ LET c == ProbeOf(i)
         t == ConnectTarget
     IN IF t = 0
        THEN /\ ipc' = [ipc EXCEPT ![i] = "start"]
             /\ host' = [host EXCEPT ![i] = "serving"]
             /\ cpc' = [cpc EXCEPT ![c] = "none"]
             /\ UNCHANGED <<req, backlog, sst, peer>>
        ELSE /\ ipc' = [ipc EXCEPT ![i] = "probing"]
             /\ cpc' = [cpc EXCEPT ![c] = "wait"]
             /\ req' = [req EXCEPT ![c] = IdRequest]
             /\ backlog' = [backlog EXCEPT ![t] = Append(@, c)]
             /\ sst' = [sst EXCEPT ![c] = "backlog"]
             /\ peer' = [peer EXCEPT ![c] = t]
             /\ UNCHANGED host
  /\ UNCHANGED <<faults, sockFile, cur, found, hst, out, rd, stdout, sent, codecVars, webVars>>

\* does_remote_exist reads one frame: IdResponse(id) is Some(id) and auto_main
\* returns; anything else, or a failed read, panics
\* a probe that answers None to whatever is not an IdResponse
ProbeRecv_Lenient(i) ==
  /\ ipc[i] = "probing"
  /\ LET c == ProbeOf(i) IN
     \/ /\ rd[c] < Len(out[c])
        /\ LET f == out[c][rd[c] + 1] IN
           IF f[1] = "IdResponse"
           THEN /\ found' = [found EXCEPT ![i] = f[2]]
                /\ ipc' = [ipc EXCEPT ![i] = "declined"]
                /\ cpc' = [cpc EXCEPT ![c] = "some"]
           ELSE /\ ipc' = [ipc EXCEPT ![i] = "start"]
                /\ cpc' = [cpc EXCEPT ![c] = "none"]
                /\ UNCHANGED found
        /\ rd' = [rd EXCEPT ![c] = @ + 1]
     \/ /\ rd[c] = Len(out[c])
        /\ ServerClosed(c)
        /\ ipc' = [ipc EXCEPT ![i] = "start"]
        /\ cpc' = [cpc EXCEPT ![c] = "none"]
        /\ UNCHANGED <<found, rd>>
  /\ UNCHANGED <<faults, sockFile, host, backlog, cur, req, sst, peer, hst, out, stdout, sent, codecVars, webVars>>

ProbeRecv(i) ==
  /\ ipc[i] = "probing"
  /\ LET c == ProbeOf(i) IN
     \/ /\ rd[c] < Len(out[c])
        /\ LET f == out[c][rd[c] + 1] IN
           IF f[1] = "IdResponse"
           THEN /\ found' = [found EXCEPT ![i] = f[2]]
                /\ ipc' = [ipc EXCEPT ![i] = "declined"]
                /\ cpc' = [cpc EXCEPT ![c] = "some"]
           ELSE /\ ipc' = [ipc EXCEPT ![i] = "aborted"]
                /\ cpc' = [cpc EXCEPT ![c] = "failed"]
                /\ UNCHANGED found
        /\ rd' = [rd EXCEPT ![c] = @ + 1]
     \/ /\ rd[c] = Len(out[c])
        /\ ServerClosed(c)
        /\ ipc' = [ipc EXCEPT ![i] = "aborted"]
        /\ cpc' = [cpc EXCEPT ![c] = "failed"]
        /\ UNCHANGED <<found, rd>>
  /\ UNCHANGED <<faults, sockFile, host, backlog, cur, req, sst, peer, hst, out, stdout, sent, codecVars, webVars>>

\* ---- listen_for_commands_inner: start-up ----

\* a start-up without the removal (the cfg(unix) line compiled out)
InnerRemove_Skipped(i) ==
  /\ ipc[i] = "start"
  /\ ipc' = [ipc EXCEPT ![i] = "removed"]
  /\ UNCHANGED <<faults, sockFile, host, backlog, cur, found, cpc, req, sst, peer, hst, out, rd, stdout, sent, codecVars, webVars>>

\* std::fs::remove_file(get_socket_name()), result ignored
InnerRemove(i) ==
  /\ ipc[i] = "start"
  /\ sockFile' = 0
  /\ ipc' = [ipc EXCEPT ![i] = "removed"]
  /\ UNCHANGED <<faults, host, backlog, cur, found, cpc, req, sst, peer, hst, out, rd, stdout, sent, codecVars, webVars>>

\* LocalSocketListener::bind(..).expect(..): binding creates the path; it is
\* refused when the path exists, and the expect then ends the task
InnerBind(i) ==
  /\ ipc[i] = "removed"
  /\ IF sockFile = 0
     THEN /\ sockFile' = i
          /\ ipc' = [ipc EXCEPT ![i] = "select"]
     ELSE /\ ipc' = [ipc EXCEPT ![i] = "bindfail"]
          /\ UNCHANGED sockFile
  /\ UNCHANGED <<faults, host, backlog, cur, found, cpc, req, sst, peer, hst, out, rd, stdout, sent, codecVars, webVars>>

\* ---- listen_for_commands_inner: the loop ----

\* a branch that breaks whenever it is polled, closed channel or not
SelectShutdown_AnyWake(i) ==
  /\ ipc[i] = "select"
  /\ ipc' = [ipc EXCEPT ![i] = "exited"]
  /\ sst' = ResetBacklog(i, sst)
  /\ backlog' = [backlog EXCEPT ![i] = <<>>]
  /\ UNCHANGED <<faults, sockFile, host, cur, found, cpc, req, peer, hst, out, rd, stdout, sent, codecVars, webVars>>

\* a branch written `Some(_) = receiver.recv()`: nothing is ever sent on the
\* channel, so it never matches
SelectShutdown_OnlyOnMessage(i) ==
  /\ ipc[i] = "select"
  /\ FALSE
  /\ UNCHANGED vars

\* select!, branch receiver.recv(): ready once the sender is dropped; break
SelectShutdown(i) ==
  /\ ipc[i] = "select"
  /\ TokenRetired(i)
  /\ ipc' = [ipc EXCEPT ![i] = "exited"]
  /\ sst' = ResetBacklog(i, sst)
  /\ backlog' = [backlog EXCEPT ![i] = <<>>]
  /\ UNCHANGED <<faults, sockFile, host, cur, found, cpc, req, peer, hst, out, rd, stdout, sent, codecVars, webVars>>

\* a loop that accepts only once no CloseSocket write of an earlier
\* connection is outstanding
SelectAccept_AfterClose(i) ==
  /\ \A c \in Conn : peer[c] = i => sst[c] # "closing"
  /\ ipc[i] = "select"
  /\ backlog[i] # <<>>
  /\ cur' = [cur EXCEPT ![i] = Head(backlog[i])]
  /\ sst' = [sst EXCEPT ![Head(backlog[i])] = "accepted"]
  /\ backlog' = [backlog EXCEPT ![i] = Tail(@)]
  /\ ipc' = [ipc EXCEPT ![i] = "accepted"]
  /\ UNCHANGED <<faults, sockFile, host, found, cpc, req, peer, hst, out, rd, stdout, sent, codecVars, webVars>>

\* select!, branch listener.accept(): ready when a connection is queued
SelectAccept(i) ==
  /\ ipc[i] = "select"
  /\ backlog[i] # <<>>
  /\ LET c == Head(backlog[i]) IN
     /\ cur' = [cur EXCEPT ![i] = c]
     /\ sst' = [sst EXCEPT ![c] = "accepted"]
  /\ backlog' = [backlog EXCEPT ![i] = Tail(@)]
  /\ ipc' = [ipc EXCEPT ![i] = "accepted"]
  /\ UNCHANGED <<faults, sockFile, host, found, cpc, req, peer, hst, out, rd, stdout, sent, codecVars, webVars>>

\* an accept loop that gives up on the first failed accept (expect)
SelectAcceptFails_Expect(i) ==
  /\ ipc[i] = "select"
  /\ backlog[i] # <<>>
  /\ faults < MaxFaults
  /\ faults' = faults + 1
  /\ sst' = ResetBacklog(i, sst)
  /\ backlog' = [backlog EXCEPT ![i] = <<>>]
  /\ ipc' = [ipc EXCEPT ![i] = "dead"]
  /\ UNCHANGED <<sockFile, host, cur, found, cpc, req, peer, hst, out, rd, stdout, sent, codecVars, webVars>>

\* select!, branch listener.accept(), result Err (the queued connection was
\* aborted before it could be accepted): unwrap! logs and continues; that
\* connection is lost, the loop is at the select! again
SelectAcceptFails(i) ==
  /\ ipc[i] = "select"
  /\ backlog[i] # <<>>
  /\ faults < MaxFaults
  /\ faults' = faults + 1
  /\ sst' = [sst EXCEPT ![Head(backlog[i])] = "reset"]
  /\ backlog' = [backlog EXCEPT ![i] = Tail(@)]
  /\ UNCHANGED <<sockFile, ipc, host, cur, found, cpc, req, peer, hst, out, rd, stdout, sent, codecVars, webVars>>

\* recv_msg returns Ok(m): a whole frame arrived and bincode decodes it
RecvOk(m) == m # NoFrame /\ m # Garbage

\* a listener that answers IdRequest with another process's id
FirstReply_ParentId(i, m) ==
  IF m = IdRequest THEN <<IdResponse(Pid(i) - 1), CloseSocket>> ELSE <<>>

\* a loop without the write of line 182 after the IdRequest arm
FirstReply_IdOnly(i, m) ==
  IF ~RecvOk(m) THEN <<>>
  ELSE IF m = IdRequest THEN <<IdResponse(Pid(i))>>
  ELSE IF m[1] = "Args" THEN <<Packet(ErrText(m[2]))>>
  ELSE <<CloseSocket>>

\* a loop that closes silently on a first frame it does not expect
FirstReply_Silent(i, m) ==
  IF ~RecvOk(m) THEN <<>>
  ELSE IF m = IdRequest THEN <<IdResponse(Pid(i)), CloseSocket>>
  ELSE IF m[1] = "Args" THEN <<Packet(ErrText(m[2]))>>
  ELSE <<>>

\* a loop that ends a rejected Args session with CloseSocket too
FirstReply_ErrThenClose(i, m) ==
  IF ~RecvOk(m) THEN <<>>
  ELSE IF m = IdRequest THEN <<IdResponse(Pid(i)), CloseSocket>>
  ELSE IF m[1] = "Args" THEN <<Packet(ErrText(m[2])), CloseSocket>>
  ELSE <<CloseSocket>>

\* the frames the loop itself writes for a first frame m that is not
\* dispatched to a handler (lines 154-182): nothing after a failed recv_msg,
\* IdResponse then the CloseSocket of line 182 for IdRequest, the parse error
\* for Args, and the CloseSocket of line 182 alone for any other message
FirstReply(i, m) ==
  IF ~RecvOk(m) THEN <<>>
  ELSE IF m = IdRequest THEN <<IdResponse(Pid(i)), CloseSocket>>
  ELSE IF m[1] = "Args" THEN <<Packet(ErrText(m[2]))>>
  ELSE <<CloseSocket>>

\* several write_all calls in a row on one stream
WriteAll(o, c, fs) == IF ClientOpen(c) THEN o \o fs ELSE o

\* a loop that hands every Args frame to a handler, parsed or not
Dispatched_NoParse(m) == RecvOk(m) /\ m[1] = "Args"

\* an Args frame whose argument vector parses is dispatched
Dispatched(m) == RecvOk(m) /\ m[1] = "Args" /\ TryParseOk(m[2])

\* a loop that spawns the handler and goes straight back to the select!
DispatchPc_Spawned == "select"

\* execute(..).await runs the handler inside the loop's own task: the loop
\* stands still until the handler is done
DispatchPc == "handling"

\* a loop that keeps the stream after answering and reads it again
RecvFirst_KeepAlive(i) ==
  /\ ipc[i] = "accepted"
  /\ ~Dispatched(req[cur[i]])
  /\ out' = [out EXCEPT ![cur[i]] = WriteAll(@, cur[i], FirstReply(i, req[cur[i]]))]
  /\ UNCHANGED <<faults, sockFile, ipc, host, backlog, cur, found, cpc, req, sst, peer, hst, rd, stdout, sent, codecVars, webVars>>

\* recv_msg on the accepted stream, then the match on the message
RecvFirst(i) ==
  /\ ipc[i] = "accepted"
  /\ LET c == cur[i]
         m == req[c]
     IN /\ m = NoFrame => ~ClientOpen(c)
        /\ IF Dispatched(m)
           THEN /\ sst' = [sst EXCEPT ![c] = "rc"]
                /\ hst' = [hst EXCEPT ![c] = "running"]
                /\ ipc' = [ipc EXCEPT ![i] = DispatchPc]
                /\ UNCHANGED <<out, cur>>
           ELSE /\ out' = [out EXCEPT ![c] = WriteAll(@, c, FirstReply(i, m))]
                /\ sst' = [sst EXCEPT ![c] = "closed"]
                /\ ipc' = [ipc EXCEPT ![i] = "select"]
                /\ cur' = [cur EXCEPT ![i] = 0]
                /\ UNCHANGED hst
  /\ UNCHANGED <<faults, sockFile, host, backlog, found, cpc, req, peer, rd, stdout, sent, codecVars, webVars>>

\* ---- the handler P::execute and its RemoteClient ----

\* a drop that only closes the stream, without the spawned CloseSocket write
DropRemoteClient_NoClose(s) == IF s = "rc" THEN "closed" ELSE s

\* impl Drop for RemoteClient: the stream moves into a spawned task
DropRemoteClient(s) == IF s = "rc" THEN "closing" ELSE s

\* a send that unwraps the result of send_msg: a failed write panics in the
\* handler
HandlerSend_Raises(i) ==
  /\ ipc[i] = "handling"
  /\ sst[cur[i]] = "rc"
  /\ Len(sent[cur[i]]) < MaxSend
  /\ sent' = [sent EXCEPT ![cur[i]] = Append(@, Text(Len(@) + 1))]
  /\ IF ClientOpen(cur[i])
     THEN /\ out' = [out EXCEPT ![cur[i]] = Append(@, Packet(Text(Len(sent[cur[i]]) + 1)))]
          /\ UNCHANGED <<ipc, hst>>
     ELSE /\ ipc' = [ipc EXCEPT ![i] = "dead"]
          /\ hst' = [hst EXCEPT ![cur[i]] = "panicked"]
          /\ UNCHANGED out
  /\ UNCHANGED <<faults, sockFile, host, backlog, cur, found, cpc, req, sst, peer, rd, stdout, codecVars, webVars>>

\* writer.send(t).await
HandlerSend(i) ==
  /\ ipc[i] = "handling"
  /\ LET c == cur[i]
         t == Text(Len(sent[c]) + 1)
     IN /\ sst[c] = "rc"
        /\ Len(sent[c]) < MaxSend
        /\ sent' = [sent EXCEPT ![c] = Append(@, t)]
        /\ out' = [out EXCEPT ![c] = Write(@, c, Packet(t))]
  /\ UNCHANGED <<faults, sockFile, ipc, host, backlog, cur, found, cpc, req, sst, peer, hst, rd, stdout, codecVars, webVars>>

\* the handler drops its RemoteClient before it returns
HandlerDropEarly(i) ==
  /\ ipc[i] = "handling"
  /\ sst[cur[i]] = "rc"
  /\ sst' = [sst EXCEPT ![cur[i]] = DropRemoteClient(@)]
  /\ UNCHANGED <<faults, sockFile, ipc, host, backlog, cur, found, cpc, req, peer, hst, out, rd, stdout, sent, codecVars, webVars>>

\* a loop that breaks after every handler, whatever it returned
AfterExecute_AlwaysBreak(b) == "exited"

\* where the loop goes when execute(..).await yields b (lines 169-177)
AfterExecute(b) == IF b THEN "exited" ELSE "select"

\* a loop that falls through to the CloseSocket write of line 182 after a
\* handler as well
HandlerReturn_LoopCloses(i, b) ==
  /\ ipc[i] = "handling"
  /\ hst' = [hst EXCEPT ![cur[i]] = IF b THEN "retTrue" ELSE "retFalse"]
  /\ ipc' = [ipc EXCEPT ![i] = "select"]
  /\ sst' = [sst EXCEPT ![cur[i]] = DropRemoteClient(@)]
  /\ out' = [out EXCEPT ![cur[i]] = Write(@, cur[i], CloseSocket)]
  /\ cur' = [cur EXCEPT ![i] = 0]
  /\ UNCHANGED <<faults, sockFile, host, backlog, found, cpc, req, peer, rd, stdout, sent, codecVars, webVars>>

\* the handler returns b
HandlerReturn(i, b) ==
  /\ ipc[i] = "handling"
  /\ LET c == cur[i]
         s == [sst EXCEPT ![c] = DropRemoteClient(@)]
     IN /\ hst' = [hst EXCEPT ![c] = IF b THEN "retTrue" ELSE "retFalse"]
        /\ ipc' = [ipc EXCEPT ![i] = AfterExecute(b)]
        /\ IF ListenerBound(i) /\ AfterExecute(b) \notin {"select", "accepted", "handling"}
           THEN /\ sst' = ResetBacklog(i, s)
                /\ backlog' = [backlog EXCEPT ![i] = <<>>]
           ELSE /\ sst' = s
                /\ UNCHANGED backlog
  /\ cur' = [cur EXCEPT ![i] = 0]
  /\ UNCHANGED <<faults, sockFile, host, found, cpc, req, peer, out, rd, stdout, sent, codecVars, webVars>>

\* the handler panics: the panic unwinds listen_for_commands_inner, which
\* awaits the handler in its own task; the RemoteClient and the listener are
\* dropped on the way
HandlerPanic(i) ==
  /\ ipc[i] = "handling"
  /\ LET c == cur[i] IN
     /\ hst' = [hst EXCEPT ![c] = "panicked"]
     /\ sst' = ResetBacklog(i, [sst EXCEPT ![c] = DropRemoteClient(@)])
  /\ backlog' = [backlog EXCEPT ![i] = <<>>]
  /\ ipc' = [ipc EXCEPT ![i] = "dead"]
  /\ cur' = [cur EXCEPT ![i] = 0]
  /\ UNCHANGED <<faults, sockFile, host, found, cpc, req, peer, out, rd, stdout, sent, codecVars, webVars>>

\* the task spawned by the drop: send_msg(CloseSocket), then the stream is dropped
CloseTask(c) ==
  /\ sst[c] = "closing"
  /\ out' = [out EXCEPT ![c] = Write(@, c, CloseSocket)]
  /\ sst' = [sst EXCEPT ![c] = "closed"]
  /\ UNCHANGED <<faults, sockFile, ipc, host, backlog, cur, found, cpc, req, peer, hst, rd, stdout, sent, codecVars, webVars>>

\* ---- the host: async_run_router ----

\* server.serve(..).with_graceful_shutdown(..).await returns an error: the
\* unwrap panics and the shutdown future, with the sender, is dropped
HostServeFails(i) ==
  /\ host[i] = "serving"
  /\ faults < MaxFaults
  /\ faults' = faults + 1
  /\ host' = [host EXCEPT ![i] = "ended"]
  /\ UNCHANGED <<sockFile, ipc, backlog, cur, found, cpc, req, sst, peer, hst, out, rd, stdout, sent, codecVars, webVars>>

\* the panic leaves #[tokio::main]: the runtime is dropped, every task is
\* cancelled and every stream and listener of the process is closed
RuntimeShutdown(i) ==
  /\ host[i] = "ended"
  /\ host' = [host EXCEPT ![i] = "down"]
  /\ ipc' = [ipc EXCEPT ![i] = IF @ \in {"exited", "dead", "bindfail"} THEN @ ELSE "down"]
  /\ sst' = [c \in Conn |-> IF peer[c] = i /\ sst[c] \in {"backlog", "accepted", "rc", "closing"}
                            THEN "reset" ELSE sst[c]]
  /\ hst' = [c \in Conn |-> IF peer[c] = i /\ hst[c] = "running" THEN "cancelled" ELSE hst[c]]
  /\ backlog' = [backlog EXCEPT ![i] = <<>>]
  /\ cur' = [cur EXCEPT ![i] = 0]
  /\ UNCHANGED <<faults, sockFile, found, cpc, req, peer, out, rd, stdout, sent, codecVars, webVars>>

\* ---- clients ----

\* a forwarder that returns quietly when nobody listens
FwdStart_Soft(c, a) ==
  /\ cpc[c] = "idle"
  /\ ConnectTarget = 0
  /\ cpc' = [cpc EXCEPT ![c] = "done"]
  /\ UNCHANGED <<faults, sockFile, ipc, host, backlog, cur, found, req, sst, peer, hst, out, rd, stdout, sent, codecVars, webVars>>

\* send_args_to_remote: connect (expect) and write Args(argv) (expect)
FwdStart(c, a) ==
  /\ cpc[c] = "idle"
  /\ LET t == ConnectTarget IN
     IF t = 0
     THEN /\ cpc' = [cpc EXCEPT ![c] = "failed"]
          /\ UNCHANGED <<req, backlog, sst, peer>>
     ELSE /\ cpc' = [cpc EXCEPT ![c] = "wait"]
          /\ req' = [req EXCEPT ![c] = Args(a)]
          /\ backlog' = [backlog EXCEPT ![t] = Append(@, c)]
          /\ sst' = [sst EXCEPT ![c] = "backlog"]
          /\ peer' = [peer EXCEPT ![c] = t]
  /\ UNCHANGED <<faults, sockFile, ipc, host, cur, found, hst, out, rd, stdout, sent, codecVars, webVars>>

\* a forwarder that prints with println! instead of print!
FwdPrint_Line(so, f) == IF f[1] = "Packet" THEN so \o <<f[2], "\n">> ELSE so

\* a forwarder that leaves its loop after the first frame, whatever it is
FwdNext_AnyEnds(f) == "done"

\* what the forwarder does with a frame it read (lines 100-104): the new
\* stdout and the new position
FwdPrint(so, f) == IF f[1] = "Packet" THEN Append(so, f[2]) ELSE so
FwdNext(f) == IF f = CloseSocket THEN "done" ELSE "wait"

\* one turn of the forwarder's loop: recv_msg(..).expect(..), then the match
FwdRecv(c) ==
  /\ cpc[c] = "wait"
  /\ \/ /\ rd[c] < Len(out[c])
        /\ LET f == out[c][rd[c] + 1] IN
           /\ stdout' = [stdout EXCEPT ![c] = FwdPrint(@, f)]
           /\ cpc' = [cpc EXCEPT ![c] = FwdNext(f)]
        /\ rd' = [rd EXCEPT ![c] = @ + 1]
     \/ /\ rd[c] = Len(out[c])
        /\ ServerClosed(c)
        /\ cpc' = [cpc EXCEPT ![c] = "failed"]
        /\ UNCHANGED <<rd, stdout>>
  /\ UNCHANGED <<faults, sockFile, ipc, host, backlog, cur, found, req, sst, peer, hst, out, sent, codecVars, webVars>>

\* another local process connects and writes m as its first frame (or nothing)
RawStart(c, m) ==
  /\ cpc[c] = "idle"
  /\ ConnectTarget # 0
  /\ cpc' = [cpc EXCEPT ![c] = "raw"]
  /\ req' = [req EXCEPT ![c] = m]
  /\ backlog' = [backlog EXCEPT ![ConnectTarget] = Append(@, c)]
  /\ sst' = [sst EXCEPT ![c] = "backlog"]
  /\ peer' = [peer EXCEPT ![c] = ConnectTarget]
  /\ UNCHANGED <<faults, sockFile, ipc, host, cur, found, hst, out, rd, stdout, sent, codecVars, webVars>>

\* a client process goes away (killed, or it closes its stream) mid-session
ClientGone(c) ==
  /\ ClientOpen(c)
  /\ faults < MaxFaults
  /\ faults' = faults + 1
  /\ cpc' = [cpc EXCEPT ![c] = "gone"]
  /\ UNCHANGED <<sockFile, ipc, host, backlog, cur, found, req, sst, peer, hst, out, rd, stdout, sent, codecVars, webVars>>

\* ---- specification ----

Next ==
  \/ \E i \in Inst : InstRun(i)
  \/ \E i \in Inst : ProbeRecv(i)
  \/ \E i \in Inst : InnerRemove(i)
  \/ \E i \in Inst : InnerBind(i)
  \/ \E i \in Inst : SelectShutdown(i)
  \/ \E i \in Inst : SelectAccept(i)
  \/ \E i \in Inst : SelectAcceptFails(i)
  \/ \E i \in Inst : RecvFirst(i)
  \/ \E i \in Inst : HandlerSend(i)
  \/ \E i \in Inst : HandlerDropEarly(i)
  \/ \E i \in Inst, b \in BOOLEAN : HandlerReturn(i, b)
  \/ \E i \in Inst : HandlerPanic(i)
  \/ \E c \in Conn : CloseTask(c)
  \/ \E i \in Inst : HostServeFails(i)
  \/ \E i \in Inst : RuntimeShutdown(i)
  \/ \E c \in Fwd, a \in Argvs : FwdStart(c, a)
  \/ \E c \in Fwd : FwdRecv(c)
  \/ \E c \in Fwd, m \in RawFrames : RawStart(c, m)
  \/ \E c \in Fwd : ClientGone(c)

Spec == Init /\ [][Next]_vars

\* The tokio runtime polls every spawned task that can make progress, the
\* operating system runs every client process, and a handler that is running
\* takes its next step.  Starting a process, a client that vanishes and a
\* serve failure are up to the environment: no fairness.
HandlerStep(i) ==
  \/ HandlerSend(i)
  \/ HandlerDropEarly(i)
  \/ \E b \in BOOLEAN : HandlerReturn(i, b)
  \/ HandlerPanic(i)

Fairness ==
  /\ \A i \in Inst : WF_vars(ProbeRecv(i))
  /\ \A i \in Inst : WF_vars(InnerRemove(i))
  /\ \A i \in Inst : WF_vars(InnerBind(i))
  /\ \A i \in Inst : WF_vars(SelectShutdown(i) \/ SelectAccept(i))
  /\ \A i \in Inst : WF_vars(RecvFirst(i))
  /\ \A i \in Inst : WF_vars(HandlerStep(i))
  /\ \A i \in Inst : WF_vars(RuntimeShutdown(i))
  /\ \A c \in Conn : WF_vars(CloseTask(c))
  /\ \A c \in Fwd  : WF_vars(FwdRecv(c))

FairSpec == Init /\ [][Next]_vars /\ Fairness

\* The same, for a host whose runtime outlives the serve: listen_for_commands
\* and async_run_router are public, and a caller that drops the future they
\* return (which retires the token) need not drop its runtime.  The loop is
\* then stopped by nothing but its own select!.
LoopFairness ==
  /\ \A i \in Inst : WF_vars(ProbeRecv(i))
  /\ \A i \in Inst : WF_vars(InnerRemove(i))
  /\ \A i \in Inst : WF_vars(InnerBind(i))
  /\ \A i \in Inst : WF_vars(SelectShutdown(i) \/ SelectAccept(i))
  /\ \A i \in Inst : WF_vars(RecvFirst(i))
  /\ \A i \in Inst : WF_vars(HandlerStep(i))
  /\ \A c \in Conn : WF_vars(CloseTask(c))
  /\ \A c \in Fwd  : WF_vars(FwdRecv(c))

LoopFairSpec == Init /\ [][Next]_vars /\ LoopFairness

\* ---- the forwarder against an arbitrary peer ----

\* send_args_to_remote reads whatever the process behind the socket path
\* writes; that process need not be a listener of this build.  The frames of
\* a stream are the input of the read loop.
MaxStream == 2
StreamFrames == {IdRequest, IdResponse(0), Args("status"), Packet("a"), CloseSocket}
Streams == UNION {[1..n -> StreamFrames] : n \in 0..MaxStream}

\* every forwarder has connected and written its Args; its peer has written
\* some stream and closed its end
StreamInit ==
  /\ faults   = 0
  /\ sockFile = 0
  /\ ipc      = [i \in Inst |-> "off"]
  /\ host     = [i \in Inst |-> "off"]
  /\ backlog  = [i \in Inst |-> <<>>]
  /\ cur      = [i \in Inst |-> 0]
  /\ found    = [i \in Inst |-> 0]
  /\ cpc      = [c \in Conn |-> IF c \in Fwd THEN "wait" ELSE "idle"]
  /\ req      = [c \in Conn |-> IF c \in Fwd THEN Args("status") ELSE NoFrame]
  /\ sst      = [c \in Conn |-> IF c \in Fwd THEN "closed" ELSE "none"]
  /\ peer     = [c \in Conn |-> 0]
  /\ hst      = [c \in Conn |-> "none"]
  /\ \E o \in [Fwd -> Streams] : out = [c \in Conn |-> IF c \in Fwd THEN o[c] ELSE <<>>]
  /\ rd       = [c \in Conn |-> 0]
  /\ stdout   = [c \in Conn |-> <<>>]
  /\ sent     = [c \in Conn |-> <<>>]
  /\ tx       = <<>>
  /\ txn      = 0
  /\ wire     = <<>>
  /\ rx       = <<>>
  /\ TlsIdle /\ PyIdle /\ AuthIdle

StreamNext == \E c \in Fwd : FwdRecv(c)

StreamSpec == StreamInit /\ [][StreamNext]_vars

\* ---- does_remote_exist against an arbitrary peer ----

\* what the peer of a probe may have written
ProbeFrames == {IdRequest, IdResponse(0), IdResponse(Pid(1)), Args("status"),
                Packet("a"), CloseSocket, Garbage}
ProbeStreams == UNION {[1..n -> ProbeFrames] : n \in 0..MaxStream}

\* every instance has connected; its peer holds the connection open
\* ("accepted"), has closed it after writing ("closed"), or was gone before
\* the probe wrote anything ("reset")
ProbeInit ==
  /\ faults   = 0
  /\ sockFile = 0
  /\ ipc      = [i \in Inst |-> "connected"]
  /\ host     = [i \in Inst |-> "off"]
  /\ backlog  = [i \in Inst |-> <<>>]
  /\ cur      = [i \in Inst |-> 0]
  /\ found    = [i \in Inst |-> 0]
  /\ cpc      = [c \in Conn |-> "idle"]
  /\ req      = [c \in Conn |-> NoFrame]
  /\ \E s \in [Inst -> {"accepted", "closed", "reset"}] :
        sst = [c \in Conn |-> IF c \in Fwd THEN "none" ELSE s[c - NFwd]]
  /\ peer     = [c \in Conn |-> 0]
  /\ hst      = [c \in Conn |-> "none"]
  /\ \E o \in [Inst -> ProbeStreams] :
        out = [c \in Conn |-> IF c \in Fwd THEN <<>> ELSE o[c - NFwd]]
  /\ rd       = [c \in Conn |-> 0]
  /\ stdout   = [c \in Conn |-> <<>>]
  /\ sent     = [c \in Conn |-> <<>>]
  /\ tx       = <<>>
  /\ txn      = 0
  /\ wire     = <<>>
  /\ rx       = <<>>
  /\ TlsIdle /\ PyIdle /\ AuthIdle

\* send_msg(IdRequest).await.ok()? : a failed write answers None, and the
\* instance goes on to serve
ProbeSend(i) ==
  /\ ipc[i] = "connected"
  /\ LET c == ProbeOf(i) IN
     IF sst[c] = "reset"
     THEN /\ ipc' = [ipc EXCEPT ![i] = "start"]
          /\ host' = [host EXCEPT ![i] = "serving"]
          /\ cpc' = [cpc EXCEPT ![c] = "none"]
          /\ UNCHANGED req
     ELSE /\ ipc' = [ipc EXCEPT ![i] = "probing"]
          /\ cpc' = [cpc EXCEPT ![c] = "wait"]
          /\ req' = [req EXCEPT ![c] = IdRequest]
          /\ UNCHANGED host
  /\ UNCHANGED <<faults, sockFile, backlog, cur, found, sst, peer, hst, out, rd, stdout, sent, codecVars, webVars>>

ProbeNext ==
  \/ \E i \in Inst : ProbeSend(i)
  \/ \E i \in Inst : ProbeRecv(i)

ProbeSpec == ProbeInit /\ [][ProbeNext]_vars

\* ---- framing: send_msg and recv_msg on bytes ----

\* Messages here are the same BaseCommand values, with a String or an
\* OsString given as its sequence of bytes and Args as a sequence of those.

\* usize::BITS / 8 on the 64-bit targets
WordBytes == 8
MaxMsgs   == 2      \* frames one writer writes in a run

\* a writer with the most significant byte first
RECURSIVE LE_BigEndian(_, _)
LE_BigEndian(n, w) == IF w = 0 THEN <<>> ELSE Append(LE_BigEndian(n \div 256, w - 1), n % 256)

\* the w bytes of n, least significant first (bincode's fixed-width integers;
\* to_ne_bytes on the little-endian targets)
RECURSIVE LE(_, _)
LE(n, w) == IF w = 0 THEN <<>> ELSE <<n % 256>> \o LE(n \div 256, w - 1)

\* the number a byte string stands for; the model's integers stop at 2^30, and
\* everything from there on reads as 2^30, more than any buffer holds
RECURSIVE FromLE(_)
FromLE(bs) ==
  IF bs = <<>> THEN 0
  ELSE LET r == FromLE(Tail(bs)) IN
       IF r >= 4194304 THEN 1073741824 ELSE Head(bs) + 256 * r

\* bincode::serialize of a Vec<OsString>'s elements: each is the variant
\* Unix (index 0) of serde's OsString representation, holding a byte vector
RECURSIVE SerOsList(_)
SerOsList(l) ==
  IF l = <<>> THEN <<>>
  ELSE LE(0, 4) \o LE(Len(Head(l)), 8) \o Head(l) \o SerOsList(Tail(l))

\* bincode::serialize(&msg): the variant index as u32, then the fields
Serialize(m) ==
  IF m = IdRequest THEN LE(0, 4)
  ELSE IF m[1] = "IdResponse" THEN LE(1, 4) \o LE(m[2], 4)
  ELSE IF m[1] = "Args" THEN LE(2, 4) \o LE(Len(m[2]), 8) \o SerOsList(m[2])
  ELSE IF m[1] = "Packet" THEN LE(3, 4) \o LE(Len(m[2]), 8) \o m[2]
  ELSE LE(4, 4)

\* a prefix that counts itself as well
send_msg_TotalLen(m) == LE(Len(Serialize(m)) + WordBytes, WordBytes) \o Serialize(m)

\* send_msg: the bytes handed to write_all
send_msg(m) == LE(Len(Serialize(m)), WordBytes) \o Serialize(m)

Short     == <<-1>>           \* read_exact / bincode ran out of bytes (no byte is negative)
DecodeErr == <<"Err">>        \* recv_msg returned Err

\* a reader that pads a short read with zeros
ReadExact_ZeroFill(b, pos, n) == [k \in 1..n |-> IF pos + k <= Len(b) THEN b[pos + k] ELSE 0]

\* n bytes after position pos, or Short
ReadExact(b, pos, n) == IF pos + n <= Len(b) THEN SubSeq(b, pos + 1, pos + n) ELSE Short

\* String::from_utf8 on the bytes of the model: ASCII is valid, 0xFF never is
Utf8Ok(t) == \A k \in 1..Len(t) : t[k] < 128

\* the n elements of a Vec<OsString> from position pos on
\* (<<"Ok", list>>, or <<"Short">> when bytes are missing or a variant index
\* is not Unix)
RECURSIVE DeOsList(_, _, _, _)
DeOsList(b, pos, n, acc) ==
  IF n = 0 THEN <<"Ok", acc>>
  ELSE LET tag == ReadExact(b, pos, 4)
           len == ReadExact(b, pos + 4, 8)
       IN IF tag = Short \/ len = Short THEN <<"Short">>
          ELSE IF FromLE(tag) # 0 THEN <<"Short">>
          ELSE LET bytes == ReadExact(b, pos + 12, FromLE(len)) IN
               IF bytes = Short THEN <<"Short">>
               ELSE DeOsList(b, pos + 12 + FromLE(len), n - 1, Append(acc, bytes))

\* bincode::deserialize(&msg): trailing bytes are allowed, anything missing or
\* out of range is an error
Deserialize(b) ==
  LET tag == ReadExact(b, 0, 4) IN
  IF tag = Short THEN DecodeErr
  ELSE IF FromLE(tag) = 0 THEN IdRequest
  ELSE IF FromLE(tag) = 1 THEN
       LET p == ReadExact(b, 4, 4) IN
       IF p = Short THEN DecodeErr ELSE IdResponse(FromLE(p))
  ELSE IF FromLE(tag) = 2 THEN
       LET n == ReadExact(b, 4, 8) IN
       IF n = Short THEN DecodeErr
       ELSE LET l == DeOsList(b, 12, FromLE(n), <<>>) IN
            IF l[1] = "Ok" THEN Args(l[2]) ELSE DecodeErr
  ELSE IF FromLE(tag) = 3 THEN
       LET n == ReadExact(b, 4, 8) IN
       IF n = Short THEN DecodeErr
       ELSE LET t == ReadExact(b, 12, FromLE(n)) IN
            IF t = Short THEN DecodeErr
            ELSE IF Utf8Ok(t) THEN Packet(t) ELSE DecodeErr
  ELSE IF FromLE(tag) = 4 THEN CloseSocket
  ELSE DecodeErr

\* recv_msg on the unread bytes w of a stream: what it returns and how many
\* bytes it took
recv_msg(w) ==
  LET size == ReadExact(w, 0, WordBytes) IN
  IF size = Short THEN <<DecodeErr, Len(w)>>
  ELSE LET msg == ReadExact(w, WordBytes, FromLE(size)) IN
       IF msg = Short THEN <<DecodeErr, Len(w)>>
       ELSE <<Deserialize(msg), WordBytes + FromLE(size)>>

\* the messages a writer of this build may send
CodecMsgs ==
  { IdRequest, CloseSocket,
    IdResponse(0), IdResponse(4001), IdResponse(70000),
    Packet(<<>>), Packet(<<97>>), Packet(<<97, 10, 98>>),
    Args(<<>>), Args(<< <<97>> >>), Args(<< <<115, 116>>, <<>>, <<255, 0>> >>) }

\* payloads a writer that is not this build may frame: unknown tags, and
\* fields cut short
Malformed ==
  { LE(5, 4), <<255, 0, 0, 0>>,
    <<>>, <<1, 0>>,
    LE(1, 4) \o <<7, 0>>,
    LE(3, 4) \o <<1, 0, 0>>,
    LE(3, 4) \o LE(2, 8) \o <<97>>,
    LE(2, 4) \o LE(1, 8),
    LE(2, 4) \o LE(1, 8) \o LE(0, 4) \o LE(3, 8) \o <<97>>,
    LE(2, 4) \o LE(1, 8) \o LE(7, 4) \o LE(0, 8) }

Raw(b) == <<"Raw", b>>
CodecInputs == CodecMsgs \cup {Raw(b) : b \in Malformed}

\* the bytes that reach the stream for an input: a whole frame either way
WireOf(x) == IF x[1] = "Raw" THEN LE(Len(x[2]), WordBytes) \o x[2] ELSE send_msg(x)

\* the reader drops the stream at the first error
Failed == rx # <<>> /\ rx[Len(rx)] = DecodeErr

CodecInit ==
  /\ faults   = 0
  /\ sockFile = 0
  /\ ipc      = [i \in Inst |-> "off"]
  /\ host     = [i \in Inst |-> "off"]
  /\ backlog  = [i \in Inst |-> <<>>]
  /\ cur      = [i \in Inst |-> 0]
  /\ found    = [i \in Inst |-> 0]
  /\ cpc      = [c \in Conn |-> "idle"]
  /\ req      = [c \in Conn |-> NoFrame]
  /\ sst      = [c \in Conn |-> "none"]
  /\ peer     = [c \in Conn |-> 0]
  /\ hst      = [c \in Conn |-> "none"]
  /\ out      = [c \in Conn |-> <<>>]
  /\ rd       = [c \in Conn |-> 0]
  /\ stdout   = [c \in Conn |-> <<>>]
  /\ sent     = [c \in Conn |-> <<>>]
  /\ tx \in UNION {[1..n -> CodecInputs] : n \in 0..MaxMsgs}
  /\ txn      = 0
  /\ wire     = <<>>
  /\ rx       = <<>>
  /\ TlsIdle /\ PyIdle /\ AuthIdle

\* the writer writes its next frame with one write_all
CodecSend ==
  /\ ~Failed
  /\ txn < Len(tx)
  /\ wire' = wire \o WireOf(tx[txn + 1])
  /\ txn' = txn + 1
  /\ UNCHANGED <<faults, sockFile, ipc, host, backlog, cur, found, cpc, req, sst, peer, hst, out, rd, stdout, sent, tx, rx, webVars>>

\* the reader calls recv_msg once bytes are there
CodecRecv ==
  /\ ~Failed
  /\ wire # <<>>
  /\ LET r == recv_msg(wire) IN
     /\ rx' = Append(rx, r[1])
     /\ wire' = SubSeq(wire, r[2] + 1, Len(wire))
  /\ UNCHANGED <<faults, sockFile, ipc, host, backlog, cur, found, cpc, req, sst, peer, hst, out, rd, stdout, sent, tx, txn, webVars>>

CodecNext == CodecSend \/ CodecRecv

CodecSpec == CodecInit /\ [][CodecNext]_vars

\* ---- TlsAcceptor::poll_accept under the serve task ----

\* the serve future has just been awaited: its task is scheduled, nobody
\* has connected
TlsInit ==
  /\ CtlIdle /\ CodecIdle /\ PyIdle /\ AuthIdle
  /\ tcpq = <<>>
  /\ tcli = [c \in TlsClients |-> "idle"]
  /\ lwaker = FALSE
  /\ woken = TRUE
  /\ tsrv = "running"

\* handshakes pushed to `accepting` and not yet yielded
InFlight(cl) == {c \in TlsClients : cl[c] \in {"shaking", "shakenOk", "shakenErr"}}
\* handshakes whose future is ready
Shaken(cl) == {c \in TlsClients : cl[c] \in {"shakenOk", "shakenErr"}}
\* the acceptor is dropped with everything it holds
DropAcceptor(cl) == [c \in TlsClients |-> IF c \in InFlight(cl) THEN "dropped" ELSE cl[c]]

\* a client completes its TCP connect; the listener wakes the task whose
\* waker it holds, which uses the waker up
TcpArrive(c) ==
  /\ tsrv = "running"
  /\ tcli[c] = "idle"
  /\ tcli' = [tcli EXCEPT ![c] = "queued"]
  /\ tcpq' = Append(tcpq, c)
  /\ IF lwaker THEN woken' = TRUE /\ lwaker' = FALSE
               ELSE UNCHANGED <<woken, lwaker>>
  /\ UNCHANGED <<tsrv, ctlVars, codecVars, pyVars, authVars>>

\* the client's handshake ends, well or badly; the handshake future wakes
\* the task that polled it
HsDone(c, ok) ==
  /\ tsrv = "running"
  /\ tcli[c] = "shaking"
  /\ tcli' = [tcli EXCEPT ![c] = IF ok THEN "shakenOk" ELSE "shakenErr"]
  /\ woken' = TRUE
  /\ UNCHANGED <<tcpq, lwaker, tsrv, ctlVars, codecVars, pyVars, authVars>>

\* one call of poll_accept by the serve task, and what serve does with the
\* item.  The listener is polled once: an accept error is returned by `?`;
\* an accepted stream starts a handshake, an empty queue registers the
\* waker.  Then `accepting` is polled: a ready handshake is yielded, Ok or
\* Err; otherwise the call is Pending.  serve ends on an error item, the
\* unwrap panics and the acceptor is dropped.
PollAccept ==
  /\ tsrv = "running"
  /\ woken
  /\ \/ /\ tcpq # <<>>
        /\ tcpq' = Tail(tcpq)
        /\ tcli' = DropAcceptor([tcli EXCEPT ![Head(tcpq)] = "aborted"])
        /\ tsrv' = "failed"
        /\ woken' = FALSE
        /\ UNCHANGED lwaker
     \/ LET acc == tcpq # <<>>
            cl  == IF acc THEN [tcli EXCEPT ![Head(tcpq)] = "shaking"] ELSE tcli
        IN /\ tcpq' = IF acc THEN Tail(tcpq) ELSE tcpq
           /\ lwaker' = IF acc THEN lwaker ELSE TRUE
           /\ IF Shaken(cl) = {}
              THEN /\ tcli' = cl
                   /\ woken' = FALSE
                   /\ UNCHANGED tsrv
              ELSE \E c \in Shaken(cl) :
                     IF cl[c] = "shakenOk"
                     THEN /\ tcli' = [cl EXCEPT ![c] = "served"]
                          /\ woken' = TRUE
                          /\ UNCHANGED tsrv
                     ELSE /\ tcli' = DropAcceptor([cl EXCEPT ![c] = "refused"])
                          /\ tsrv' = "failed"
                          /\ woken' = FALSE
  /\ UNCHANGED <<ctlVars, codecVars, pyVars, authVars>>

TlsNext ==
  \/ \E c \in TlsClients : TcpArrive(c)
  \/ \E c \in TlsClients : \E ok \in BOOLEAN : HsDone(c, ok)
  \/ PollAccept

TlsSpec == TlsInit /\ [][TlsNext]_vars

\* a scheduled task is polled; no client is obliged to finish a handshake
TlsFairSpec == TlsSpec /\ WF_vars(PollAccept)

\* ---- the hot-reload tasks of one burst of change events ----

MaxEvents == 257      \* change events in one burst at most
CounterMod == 256     \* an AtomicU8 counts modulo 2^8

\* the loaded script the burst is about
BurstPath == "a.py"

\* what load_py_handlers may return: an error, or handlers with any of the
\* three slots filled; v names the version of the file that was loaded
Loaded(v) == {[get |-> g, post |-> q, ws |-> w] : g \in {0, v}, q \in {0, v}, w \in {0, v}}

\* the scripts were loaded at start-up (version 1); earlier bursts left the
\* counter of the path at some value
ReloadInit ==
  /\ CtlIdle /\ CodecIdle /\ TlsIdle /\ AuthIdle
  /\ evn = 0
  /\ wkn = 0
  /\ over = FALSE
  /\ ovchk \in BOOLEAN
  /\ base \in {0, CounterMod - 1}
  /\ pctr = base
  /\ \E h \in {[get |-> 1, post |-> 1, ws |-> 1], [get |-> 1, post |-> 0, ws |-> 0],
               [get |-> 0, post |-> 1, ws |-> 1]} :
        handlers = [p \in PyPaths |-> IF p = BurstPath THEN h ELSE [get |-> 1, post |-> 1, ws |-> 1]]
  /\ loads = 0
  /\ loader = 0
  /\ lres = "none"

\* value fetch_add returned to the task of the k-th event of the burst
Fetched(k) == (base + k - 1) % CounterMod
\* `fetch_add(..) + 1` overflows u8: a panic when the build checks overflow
IdPanics(k) == ovchk /\ Fetched(k) + 1 = CounterMod
\* otherwise the id wraps
TaskId(k) == (Fetched(k) + 1) % CounterMod

\* a reload that stores what it loaded
Merge_Replace(h, n) == n

\* the per-slot update of a successful reload: a slot is replaced only when
\* it is filled on both sides
Slot(old, new) == IF new # 0 /\ old # 0 THEN new ELSE old
Merge(h, n) == [get |-> Slot(h.get, n.get), post |-> Slot(h.post, n.post), ws |-> Slot(h.ws, n.ws)]

\* a change event for BurstPath arrives; its task starts and takes an id.
\* Within a burst the event comes before the task of the previous event
\* wakes (the gap is shorter than SYNC_CHANGES_DELAY).
PyEvent ==
  /\ ~over
  /\ evn < MaxEvents
  /\ evn' = evn + 1
  /\ pctr' = (pctr + 1) % CounterMod
  /\ UNCHANGED <<wkn, over, ovchk, base, handlers, loads, loader, lres>>
  /\ UNCHANGED <<ctlVars, codecVars, tlsVars, authVars>>

\* no further event follows within SYNC_CHANGES_DELAY
PyBurstEnds ==
  /\ ~over
  /\ evn >= 1
  /\ over' = TRUE
  /\ UNCHANGED <<evn, wkn, ovchk, base, pctr, handlers, loads, loader, lres>>
  /\ UNCHANGED <<ctlVars, codecVars, tlsVars, authVars>>

\* the sleep of the oldest sleeping task ends (equal sleeps end in the
\* order they began); under the upgradable lock it compares the counter
\* with its id and, when they are equal, loads the script and merges
PyWake ==
  /\ wkn < evn
  /\ wkn + 1 < evn \/ over
  /\ wkn' = wkn + 1
  /\ IF IdPanics(wkn + 1) \/ pctr # TaskId(wkn + 1)
     THEN UNCHANGED <<handlers, loads, loader, lres>>
     ELSE /\ loads' = loads + 1
          /\ loader' = wkn + 1
          /\ \/ /\ lres' = "Err"
                /\ UNCHANGED handlers
             \/ /\ lres' = "Ok"
                /\ \E n \in Loaded(loads + 2) :
                     handlers' = [handlers EXCEPT ![BurstPath] = Merge(@, n)]
  /\ UNCHANGED <<evn, over, ovchk, base, pctr>>
  /\ UNCHANGED <<ctlVars, codecVars, tlsVars, authVars>>

ReloadNext == PyEvent \/ PyBurstEnds \/ PyWake

ReloadSpec == ReloadInit /\ [][ReloadNext]_vars

\* ---- BearerAuth::authorize ----

MaxParams == 2        \* parameters in a query string at most

\* texts are sequences of characters
KeyText    == <<"a", "p", "i", "_", "t", "o", "k", "e", "n">>
BearerText == <<"B", "e", "a", "r", "e", "r", " ">>
\* no Authorization header; a header value that is not visible ASCII
NoHeader      == <<"<none>">>
NonUtf8Header == <<"<bytes>">>

ApiTokens   == {<<"s">>, <<"s", "k">>}
ParamKeys   == {KeyText, <<"x">> \o KeyText, <<"q">>}
ParamValues == {<<"s">>, <<"s", "k">>, <<"x">>, <<>>}
AuthHeaders == {NoHeader, NonUtf8Header, <<"s">>, <<"B", "e", "a", "r", "e", "r">>,
                <<"b", "e", "a", "r", "e", "r", " ", "s">>}
               \cup {BearerText \o v : v \in ParamValues}
ReqPaths    == {"/health", "/api"}
\* public_paths.is_match
IsPublic(path) == path = "/health"

\* the query string of a URI whose parameters are ps
RECURSIVE Render(_)
Render(ps) ==
  IF ps = <<>> THEN <<>>
  ELSE ps[1][1] \o <<"=">> \o ps[1][2]
       \o (IF Len(ps) > 1 THEN <<"&">> \o Render(Tail(ps)) ELSE <<>>)

Requests ==
  {[path |-> pa, auth |-> h, query |-> q] :
     pa \in ReqPaths, h \in AuthHeaders,
     q \in {NoHeader} \cup {Render(ps) : ps \in UNION {[1..n -> ParamKeys \X ParamValues] : n \in 0..MaxParams}}}

\* the layer is built with a token, and a request comes in
AuthInit ==
  /\ CtlIdle /\ CodecIdle /\ TlsIdle /\ PyIdle
  /\ atok \in ApiTokens
  /\ areq \in Requests
  /\ ares = "none"

StartsWith(t, pre) == Len(pre) <= Len(t) /\ SubSeq(t, 1, Len(pre)) = pre
\* str::contains
Contains(t, sub) ==
  \E k \in 0..(Len(t) - Len(sub)) : SubSeq(t, k + 1, k + Len(sub)) = sub
\* query.contains(&format!("api_token={}", api_token))
QueryAdmits(tok, q) == Contains(q, KeyText \o <<"=">> \o tok)

authorize(tok, rq) ==
  IF IsPublic(rq.path) THEN "ok"
  ELSE IF rq.auth # NoHeader
       THEN IF rq.auth = NonUtf8Header THEN "401"
            ELSE IF ~StartsWith(rq.auth, BearerText) THEN "401"
            ELSE IF SubSeq(rq.auth, Len(BearerText) + 1, Len(rq.auth)) = tok THEN "ok"
            ELSE "401"
       ELSE IF rq.query # NoHeader /\ QueryAdmits(tok, rq.query) THEN "ok"
            ELSE "401"

Authorize ==
  /\ ares = "none"
  /\ ares' = authorize(atok, areq)
  /\ UNCHANGED <<atok, areq, ctlVars, codecVars, tlsVars, pyVars>>

AuthNext == Authorize

AuthSpec == AuthInit /\ [][AuthNext]_vars

\* ======================= claims =======================

IsPrefix(p, q) == Len(p) <= Len(q) /\ \A k \in 1..Len(p) : p[k] = q[k]
CloseCount(o) == Cardinality({k \in 1..Len(o) : o[k] = CloseSocket})
\* a RemoteClient was constructed for the connection
HasRemoteClient(c) == hst[c] # "none"

\* C1 as claimed: once the teardown of a connection's RemoteClient has run,
\* exactly one CloseSocket frame has been written to the connection, and it is
\* the last frame.
C1_ExactlyOneCloseSocket ==
  \A c \in Fwd : HasRemoteClient(c) /\ sst[c] = "closed" =>
      CloseCount(out[c]) = 1 /\ out[c][Len(out[c])] = CloseSocket

\* C1 amended: on every exit path of the handler at most one CloseSocket frame
\* is written to the connection and no frame follows it; once the teardown
\* write has run, exactly one was written unless the client had already closed
\* its end (the write then fails and the error is logged).
C1_CloseSocketOnceAndLast ==
  \A c \in Fwd : HasRemoteClient(c) =>
      /\ CloseCount(out[c]) <= 1
      /\ \A k \in 1..Len(out[c]) : out[c][k] = CloseSocket => k = Len(out[c])
      /\ sst[c] = "closed" /\ cpc[c] # "gone" => CloseCount(out[c]) = 1

\* a handler panicked after a send, and the teardown wrote CloseSocket last
C1_Witness ==
  \E c \in Fwd : /\ hst[c] = "panicked"
                 /\ sst[c] = "closed"
                 /\ out[c] = <<Packet("a"), CloseSocket>>

\* C2: after a handler has panicked, the listener that dispatched it is
\* still bound and in its loop for as long as the host serves.
C2_ListenerSurvivesPanic ==
  \A c \in Fwd : hst[c] = "panicked" /\ host[peer[c]] = "serving" =>
      ListenerBound(peer[c])

\* C3: once a handler dispatched by instance i has returned true, the serve
\* of instance i eventually ends (its shutdown signal completes).
C3_TrueLeadsToShutdown ==
  \A i \in Inst :
      (\E c \in Fwd : peer[c] = i /\ hst[c] = "retTrue") ~> (host[i] # "serving")

\* C4: at most one instance holds a bound, listening control listener.
C4_SingleListener ==
  Cardinality({i \in Inst : ListenerBound(i)}) <= 1

\* C5: a listener runs at most one handler at a time, and while a handler it
\* dispatched is running the loop is inside that dispatch: it is not at the
\* select!, and it holds no other accepted connection.
Running(i) == {c \in Conn : peer[c] = i /\ hst[c] = "running"}
C5_OneHandlerAtATime ==
  \A i \in Inst :
      /\ Cardinality(Running(i)) <= 1
      /\ \A c \in Running(i) :
            /\ ipc[i] = "handling"
            /\ cur[i] = c
            /\ \A d \in Conn : peer[d] = i /\ sst[d] = "accepted" => FALSE

\* a handler is running while a second client waits in the accept queue
C5_Witness ==
  \E i \in Inst : Running(i) # {} /\ backlog[i] # <<>>

\* C6: two forwarders that are connected to the same listener at the same
\* time, each with an Args request that parses, are both served in the end,
\* each printing exactly what its own handler sent and ending on its own
\* CloseSocket; and no connection ever carries a Packet its own handler did
\* not send.  (Not owed when a handler asked for termination, a client
\* vanished or the serve failed.)
Packets(o) == SelectSeq(o, LAMBDA f : f[1] = "Packet")
OwnFramesOnly ==
  \A c \in Fwd : HasRemoteClient(c) =>
      /\ Len(Packets(out[c])) <= Len(sent[c])
      /\ \A k \in 1..Len(Packets(out[c])) : Packets(out[c])[k] = Packet(sent[c][k])
Served(c) == cpc[c] = "done" /\ stdout[c] = sent[c]
Together(i, c1, c2) ==
  /\ c1 # c2 /\ peer[c1] = i /\ peer[c2] = i
  /\ Dispatched(req[c1]) /\ Dispatched(req[c2])
  /\ cpc[c1] = "wait" /\ cpc[c2] = "wait"
  /\ sst[c2] = "backlog"
Excused(i) == faults > 0 \/ \E c \in Fwd : peer[c] = i /\ hst[c] = "retTrue"
C6_BothClientsServed ==
  /\ []OwnFramesOnly
  /\ \A i \in Inst : \A c1 \in Fwd : \A c2 \in Fwd :
        Together(i, c1, c2) ~> ((Served(c1) /\ Served(c2)) \/ Excused(i))

\* C7: what a forwarder has printed is always a prefix of what the handler of
\* its session has sent, in the same order; when the forwarder has ended on
\* CloseSocket it has printed exactly the texts sent, nothing more, and has
\* read every frame of the stream.
C7_ForwarderPrintsInOrder ==
  \A c \in Fwd : HasRemoteClient(c) =>
      /\ IsPrefix(stdout[c], sent[c])
      /\ cpc[c] = "done" =>
            /\ stdout[c] = sent[c]
            /\ rd[c] = Len(out[c])
            /\ out[c][rd[c]] = CloseSocket

\* the handler sent "a" then "b" and returned false; the forwarder is done
C7_Witness ==
  \E c \in Fwd : /\ hst[c] = "retFalse"
                 /\ sent[c] = <<"a", "b">>
                 /\ cpc[c] = "done"

\* C8: the step in which a handler returns false takes the loop back to the
\* select! with its listener bound and the socket path untouched; and every
\* probe that was answered got the process id of the listener it reached.
C8_FalseKeepsListening ==
  /\ [][\A i \in Inst : \A c \in Fwd :
           peer[c] = i /\ hst[c] = "running" /\ hst'[c] = "retFalse"
             => ipc'[i] = "select" /\ sockFile' = sockFile]_vars
  /\ [](\A j \in Inst : found[j] # 0 => found[j] = Pid(peer[ProbeOf(j)]))

\* a handler returned false on a listener that has answered a probe
C8_Witness ==
  \E i \in Inst : \E j \in Inst : \E c \in Fwd :
      /\ hst[c] = "retFalse" /\ peer[c] = i
      /\ peer[ProbeOf(j)] = i /\ found[j] = Pid(i)

\* C9: whenever the loop has been left, the ShutdownToken is retired.
C9_ExitOnlyByToken ==
  \A i \in Inst : ipc[i] \in {"exited", "dead"} => TokenRetired(i)

\* C10 as claimed: a loop iteration that starts with the token retired never
\* accepts a connection.
C10_NoAcceptOnceRetired ==
  [][\A i \in Inst : ipc[i] = "select" /\ TokenRetired(i) => ipc'[i] # "accepted"]_vars

\* C10 amended: a loop iteration that starts with the token retired can
\* always exit; the step it takes either exits the loop without accepting
\* anything, or, only when a connection is ready, accepts that connection
\* (the select! is unbiased).
C10_RetiredTokenRace ==
  /\ [](\A i \in Inst : ipc[i] = "select" /\ TokenRetired(i) => ENABLED SelectShutdown(i))
  /\ [][\A i \in Inst : ipc[i] = "select" /\ TokenRetired(i) /\ ipc'[i] # "select" =>
           \/ /\ ipc'[i] \in {"exited", "down"}
              /\ \A c \in Conn : sst'[c] = "accepted" => sst[c] = "accepted"
           \/ /\ backlog[i] # <<>>
              /\ ipc'[i] = "accepted"
              /\ cur'[i] = Head(backlog[i])]_vars

\* the loop left through the token branch while a connection was waiting
C10_Witness ==
  \E i \in Inst : \E c \in Fwd :
      /\ ipc[i] = "exited" /\ host[i] = "ended"
      /\ \A d \in Conn : hst[d] # "retTrue"
      /\ peer[c] = i /\ sst[c] = "reset" /\ req[c] # NoFrame

\* C11: a probe whose connection is refused (no file at the socket path, or a
\* file nobody listens behind) is None: the process goes on to start its own
\* service, nothing was written or queued anywhere, and a probe only ever
\* fails after it did connect to a listener.
C11_RefusedProbeIsNone ==
  /\ [][\A j \in Inst : ipc[j] = "off" /\ ipc'[j] # "off" /\ ConnectTarget = 0 =>
          /\ ipc'[j] = "start"
          /\ cpc'[ProbeOf(j)] = "none"
          /\ found'[j] = 0
          /\ out' = out /\ backlog' = backlog]_vars
  /\ [](\A j \in Inst : ipc[j] = "aborted" => peer[ProbeOf(j)] # 0)

\* a probe returned None although a stale file sits at the socket path
C11_Witness ==
  \E j \in Inst : ipc[j] = "start" /\ cpc[ProbeOf(j)] = "none" /\ sockFile # 0

OtherFirst(c) == req[c] \in {IdResponse(0), Packet("x"), CloseSocket}

ParseFails(c) == req[c] # NoFrame /\ req[c][1] = "Args" /\ ~TryParseOk(req[c][2])

\* C15: a connection whose Args do not parse gets one Packet with the error
\* text and nothing else (nothing at all when the client has already closed
\* its end); no RemoteClient is constructed and no handler dispatched; the
\* step that serves it closes the connection and takes the loop back to the
\* select! with the listener bound.
C15_ParseFailure ==
  /\ [](\A c \in Fwd : ParseFails(c) =>
          /\ hst[c] = "none" /\ sent[c] = <<>>
          /\ sst[c] \notin {"rc", "closing"}
          /\ sst[c] # "closed" => out[c] = <<>>
          /\ sst[c] = "closed" =>
                \/ out[c] = <<Packet(ErrText(req[c][2]))>>
                \/ cpc[c] = "gone" /\ out[c] = <<>>)
  /\ [][\A c \in Fwd : ParseFails(c) /\ sst[c] = "accepted" /\ sst'[c] # "accepted" /\ sst'[c] # "reset" =>
          /\ sst'[c] = "closed"
          /\ ipc'[peer[c]] = "select" /\ ListenerBound(peer[c])'
          /\ sockFile' = sockFile /\ backlog' = backlog]_vars

\* after a parse failure was reported, a later connection got its handler
C15_Witness ==
  \E c \in Fwd : \E d \in Fwd :
      /\ ParseFails(c) /\ sst[c] = "closed" /\ out[c] = <<Packet("usage")>>
      /\ peer[d] = peer[c] /\ hst[d] = "running"

\* C16: a forwarder that has read a frame and is still reading has read only
\* Packet frames: any other frame (but CloseSocket, which ends it normally)
\* ends it with a failure.
C16_OtherMessageFails ==
  \A c \in Fwd : cpc[c] = "wait" =>
      \A k \in 1..rd[c] : out[c][k][1] = "Packet"

\* C17: a forwarder that has ended normally has read a CloseSocket as its last
\* frame; and the step in which a forwarder stops reading either reads a
\* CloseSocket and ends normally, or finds the stream ended with no frame
\* left and ends with a failure.
C17_NormalEndOnlyOnCloseSocket ==
  /\ [](\A c \in Fwd : cpc[c] = "done" => rd[c] >= 1 /\ out[c][rd[c]] = CloseSocket)
  /\ [][\A c \in Fwd : cpc[c] = "wait" /\ cpc'[c] \in {"done", "failed"} =>
          IF rd[c] < Len(out[c])
          THEN out[c][rd[c] + 1] = CloseSocket /\ cpc'[c] = "done"
          ELSE ServerClosed(c) /\ cpc'[c] = "failed"]_vars

\* a forwarder got the parse error, then the end of the stream without a
\* CloseSocket, and failed
C17_Witness ==
  \E c \in Fwd : cpc[c] = "failed" /\ rd[c] = 1 /\ out[c] = <<Packet("usage")>>

\* C18: once the client of a running command is gone, a send writes nothing
\* and leaves the handler running in the loop's dispatch, and the handler can
\* always go on to return; the teardown write can always run, writes nothing
\* and disturbs neither the loop nor any handler; when the handler returns
\* false the loop is back at the select! with its listener and its accept
\* queue, and it can accept the next queued connection.
C18_GoneClientHarmless ==
  /\ [][\A c \in Fwd : cpc[c] = "gone" /\ hst[c] = "running" /\ sent'[c] # sent[c] =>
          /\ hst'[c] = "running"
          /\ ipc'[peer[c]] = "handling"
          /\ out'[c] = out[c]]_vars
  /\ [][\A c \in Fwd : cpc[c] = "gone" /\ sst[c] = "closing" /\ sst'[c] = "closed" =>
          out' = out /\ ipc' = ipc /\ hst' = hst]_vars
  /\ [][\A c \in Fwd : cpc[c] = "gone" /\ hst[c] = "running" /\ hst'[c] = "retFalse" =>
          /\ ipc'[peer[c]] = "select" /\ ListenerBound(peer[c])'
          /\ backlog' = backlog]_vars
  /\ [](\A c \in Fwd : cpc[c] = "gone" /\ hst[c] = "running" =>
          ENABLED (\E b \in BOOLEAN : HandlerReturn(peer[c], b)))
  /\ [](\A c \in Fwd : cpc[c] = "gone" /\ sst[c] = "closing" => ENABLED CloseTask(c))
  /\ [](\A c \in Fwd : cpc[c] = "gone" /\ hst[c] = "retFalse" /\ ipc[peer[c]] = "select"
                         /\ backlog[peer[c]] # <<>> => ENABLED SelectAccept(peer[c]))

\* the client left before the handler sent anything; the handler sent twice
\* and returned false, the teardown wrote nothing, and the next connection
\* has its handler running
C18_Witness ==
  \E c \in Fwd : \E d \in Fwd :
      /\ cpc[c] = "gone" /\ hst[c] = "retFalse"
      /\ Len(sent[c]) = MaxSend /\ out[c] = <<>> /\ sst[c] = "closed"
      /\ peer[d] = peer[c] /\ hst[d] = "running"

\* C19: the step that drops a RemoteClient writes nothing itself: the stream
\* goes to the spawned task, and when the handler returned false the loop is
\* back at the select! in that very step; the loop can accept whenever a
\* connection is queued and can dispatch whenever it holds a request, whatever
\* became of the CloseSocket writes of earlier connections.
C19_DropDoesNotWait ==
  /\ [][\A c \in Fwd : sst[c] = "rc" /\ sst'[c] # "rc" /\ sst'[c] # "reset" =>
          /\ sst'[c] = "closing"
          /\ out' = out
          /\ hst'[c] = "retFalse" => ipc'[peer[c]] = "select"]_vars
  /\ [](\A i \in Inst : ipc[i] = "select" /\ backlog[i] # <<>> => ENABLED SelectAccept(i))
  /\ [](\A i \in Inst : ipc[i] = "accepted" /\ req[cur[i]] # NoFrame => ENABLED RecvFirst(i))

\* the handler of the next connection runs while the CloseSocket write of the
\* previous one is still outstanding
C19_Witness ==
  \E c \in Fwd : \E d \in Fwd :
      /\ c # d /\ peer[c] = peer[d]
      /\ hst[c] = "retFalse" /\ sst[c] = "closing"
      /\ hst[d] = "running"

\* C20: when the handler of a session has returned true and the client is
\* still there, the forwarder never ends with a failure, and once the server
\* end of the stream is gone the last frame written was CloseSocket.
C20_TrueStillClosesCleanly ==
  \A c \in Fwd : hst[c] = "retTrue" /\ cpc[c] # "gone" =>
      /\ cpc[c] \in {"wait", "done"}
      /\ ServerClosed(c) => out[c] # <<>> /\ out[c][Len(out[c])] = CloseSocket

\* the loop of instance i was left because a handler returned true
ExitedOnTrue(i) == ipc[i] = "exited" /\ \E c \in Fwd : peer[c] = i /\ hst[c] = "retTrue"

\* C21: once the loop of an instance was left because a handler returned
\* true, the loop stays left, and a probe made while the socket path is still
\* the one that instance bound is refused and returns None: no process id, no
\* panic, nothing queued or written.
C21_ProbeAfterTrueIsNone ==
  /\ [][\A i \in Inst : ExitedOnTrue(i) => ExitedOnTrue(i)']_vars
  /\ [][\A i \in Inst : \A j \in Inst :
          ExitedOnTrue(i) /\ sockFile = i /\ ipc[j] = "off" /\ ipc'[j] # "off" =>
              /\ ipc'[j] = "start"
              /\ cpc'[ProbeOf(j)] = "none"
              /\ found'[j] = 0
              /\ out' = out /\ backlog' = backlog]_vars

\* a handler returned true and its client ended normally; the process of that
\* instance is still there, and another process has probed None at its path
C21_Witness ==
  \E i \in Inst : \E j \in Inst : \E c \in Fwd :
      /\ peer[c] = i /\ hst[c] = "retTrue" /\ cpc[c] = "done"
      /\ ipc[i] = "exited" /\ host[i] = "serving" /\ sockFile = i
      /\ ipc[j] = "start" /\ cpc[ProbeOf(j)] = "none"

\* C22: reading one frame from the bytes send_msg writes for a message
\* returns that message and takes every byte; and on a stream, every message
\* a writer of this build framed is read back equal, at its place in the order.
C22_RoundTrip ==
  /\ \A m \in CodecMsgs : recv_msg(send_msg(m)) = <<m, Len(send_msg(m))>>
  /\ \A k \in 1..Len(rx) : tx[k] \in CodecMsgs => rx[k] = tx[k]

\* an Args with three arguments (one empty, one not UTF-8) and an IdResponse
\* were written and read back
C22_Witness ==
  /\ tx = <<Args(<< <<115, 116>>, <<>>, <<255, 0>> >>), IdResponse(70000)>>
  /\ rx = tx

\* C23: a frame whose payload has an unknown tag or a field cut short is read
\* as an error, never as a message; what recv_msg returned as a message was
\* written as that message.
C23_MalformedIsError ==
  /\ \A b \in Malformed : Deserialize(b) = DecodeErr
  /\ \A k \in 1..Len(rx) :
        /\ tx[k] \notin CodecMsgs => rx[k] = DecodeErr
        /\ rx[k] # DecodeErr => rx[k] = tx[k]

\* a good frame was read, then a frame with a truncated field gave an error
C23_Witness ==
  /\ tx = <<Packet(<<97>>), Raw(LE(1, 4) \o <<7, 0>>)>>
  /\ rx = <<Packet(<<97>>), DecodeErr>>

\* the frames of tx[a..b], one after the other
RECURSIVE WireOfAll(_, _)
WireOfAll(a, b) == IF a > b THEN <<>> ELSE WireOf(tx[a]) \o WireOfAll(a + 1, b)

\* C29: a frame is WordBytes bytes of length followed by exactly that many
\* bytes, the serialized message; and on a stream the bytes not yet read are
\* exactly the frames written and not yet read, so that every read took the
\* bytes of one frame, and the messages come out in the order written.
C29_FrameLayout ==
  /\ \A m \in CodecMsgs :
        /\ Len(send_msg(m)) = WordBytes + Len(Serialize(m))
        /\ FromLE(SubSeq(send_msg(m), 1, WordBytes)) = Len(Serialize(m))
        /\ SubSeq(send_msg(m), WordBytes + 1, Len(send_msg(m))) = Serialize(m)
  /\ Len(rx) <= txn
  /\ wire = WireOfAll(Len(rx) + 1, txn)
  /\ \A k \in 1..Len(rx) : rx[k] # DecodeErr => rx[k] = tx[k]

\* two frames were written back-to-back; the first has been read and exactly
\* the second is left
C29_Witness ==
  /\ tx = <<Packet(<<97, 10, 98>>), IdResponse(70000)>>
  /\ txn = 2
  /\ rx = <<Packet(<<97, 10, 98>>)>>
  /\ wire = send_msg(IdResponse(70000))

\* C24: at start-up the socket path is removed first and bound second: the
\* removal always leaves no file at the path, a listener comes to be bound
\* only by a bind on the empty path after its own removal, and both steps can
\* always be taken; so the bind of an instance fails only when, between its
\* removal and its bind, another instance bound the path.
C24_RemoveThenBind ==
  /\ [][\A j \in Inst : ipc[j] = "start" /\ ipc'[j] \notin {"start", "down"} =>
          ipc'[j] = "removed" /\ sockFile' = 0]_vars
  /\ [][\A j \in Inst : ~ListenerBound(j) /\ ListenerBound(j)' =>
          ipc[j] = "removed" /\ sockFile = 0 /\ sockFile' = j]_vars
  /\ [][\A j \in Inst : ipc[j] = "removed" /\ sockFile = 0 /\ sockFile' # 0 =>
          \/ sockFile' = j /\ ipc'[j] = "select"
          \/ \E k \in Inst : k # j /\ ipc[k] = "removed" /\ ipc'[k] = "select" /\ sockFile' = k]_vars
  /\ [][\A j \in Inst : ipc[j] = "removed" /\ ipc'[j] = "bindfail" =>
          sockFile # 0 /\ sockFile # j]_vars
  /\ [](\A j \in Inst : /\ ipc[j] = "start" => ENABLED InnerRemove(j)
                        /\ ipc[j] = "removed" => ENABLED InnerBind(j))

\* the process of an instance that had bound the path has ended uncleanly,
\* and the other instance is bound and listening at the path
C24_Witness ==
  \E i \in Inst : \E j \in Inst :
      /\ i # j
      /\ host[i] = "down" /\ ipc[i] \in {"exited", "dead"}
      /\ ipc[j] = "select" /\ sockFile = j /\ host[j] = "serving"

\* C25: an iteration of the loop that fails ends alone.  A failed accept
\* leaves the loop at the select!; a first frame that cannot be read or
\* decoded, and a reply that cannot be written, close that connection and
\* take the loop back to the select!; the listener, its accept queue and the
\* socket path are as before, and a queued connection can be accepted.  The
\* loop leaves the select! only to accept, or when the token is retired.
C25_IterationErrorsAreLocal ==
  /\ [][\A i \in Inst : ipc[i] = "select" /\ ipc'[i] # "select" =>
          \/ ipc'[i] = "accepted"
          \/ ipc'[i] \in {"exited", "down"} /\ TokenRetired(i)]_vars
  /\ [][\A i \in Inst : ipc[i] = "select" /\ backlog[i] # <<>> /\ backlog'[i] # backlog[i]
                          /\ sst'[Head(backlog[i])] = "reset" /\ ipc'[i] # "exited" /\ host'[i] # "down" =>
          ipc'[i] = "select" /\ backlog'[i] = Tail(backlog[i]) /\ sockFile' = sockFile]_vars
  /\ [][\A i \in Inst : ipc[i] = "accepted" /\ ipc'[i] \notin {"accepted", "down"}
                          /\ (~RecvOk(req[cur[i]]) \/ ~ClientOpen(cur[i])) /\ ~Dispatched(req[cur[i]]) =>
          /\ ipc'[i] = "select"
          /\ sst'[cur[i]] = "closed"
          /\ out' = out /\ hst' = hst
          /\ backlog' = backlog /\ sockFile' = sockFile]_vars
  /\ [](\A i \in Inst : ipc[i] = "select" /\ backlog[i] # <<>> => ENABLED SelectAccept(i))

\* one connection was lost to a failed accept, one sent a frame that does not
\* decode and was closed with nothing written, and the probe that came with
\* them was answered
C25_Witness ==
  \E c \in Fwd : \E d \in Fwd : \E j \in Inst :
      /\ peer[c] = peer[d] /\ peer[ProbeOf(j)] = peer[c]
      /\ req[c] = Garbage /\ sst[c] = "closed" /\ out[c] = <<>> /\ cpc[c] = "raw"
      /\ sst[d] = "reset" /\ ipc[peer[d]] = "select" /\ faults = 1 /\ host[peer[d]] = "serving"
      /\ found[j] = Pid(peer[c])

C27_RemoteClientOwnsStream ==
  /\ [](\A c \in Fwd : HasRemoteClient(c) =>
          /\ sst[c] \in {"rc", "closing", "closed", "reset"}
          /\ sst[c] = "rc" => hst[c] = "running" /\ cur[peer[c]] = c /\ ipc[peer[c]] = "handling"
          /\ \A i \in Inst : ipc[i] = "accepted" => cur[i] # c
          /\ \A k \in 1..Len(out[c]) :
                IF k <= Len(Packets(out[c])) THEN out[c][k][1] = "Packet" ELSE out[c][k] = CloseSocket)
  /\ []OwnFramesOnly
  /\ [][\A c \in Fwd : HasRemoteClient(c) /\ out'[c] # out[c] =>
          \/ /\ sst[c] = "rc" /\ sst'[c] = "rc"
             /\ sent'[c] = Append(sent[c], out'[c][Len(out'[c])][2])
             /\ out'[c] = Append(out[c], Packet(sent'[c][Len(sent'[c])]))
             /\ ipc' = ipc
          \/ /\ sst[c] = "closing" /\ sst'[c] = "closed"
             /\ sent'[c] = sent[c]
             /\ out'[c] = Append(out[c], CloseSocket)
             /\ ipc' = ipc]_vars
  /\ [][\A c \in Fwd : sst[c] \in {"closing", "closed", "reset"} => sent'[c] = sent[c]]_vars

\* the handler sent a text, dropped its RemoteClient early, the teardown wrote
\* CloseSocket, and the handler is still running
C27_Witness ==
  \E c \in Fwd : /\ hst[c] = "running" /\ sst[c] = "closed"
                 /\ out[c] = <<Packet("a"), CloseSocket>>

\* C28: a connection moves forward only: from the accept queue to the loop,
\* from the loop to a handler's RemoteClient or to closed, from the
\* RemoteClient to the teardown task, from there to closed.  The loop reads
\* a connection in one step only, the one in which it hands it on; a handler
\* is dispatched for a connection at most once, in that step.
C28_OneRequestPerConnection ==
  /\ [][\A c \in Conn :
          /\ sst'[c] = "backlog" /\ sst[c] # "backlog" => sst[c] = "none"
          /\ sst'[c] = "accepted" /\ sst[c] # "accepted" => sst[c] = "backlog"
          /\ sst'[c] = "rc" /\ sst[c] # "rc" => sst[c] = "accepted"
          /\ sst'[c] = "closing" /\ sst[c] # "closing" => sst[c] = "rc"
          /\ sst[c] \in {"closed", "reset"} => sst'[c] = sst[c]]_vars
  /\ [][\A i \in Inst : ipc[i] = "accepted"
                          /\ (out'[cur[i]] # out[cur[i]] \/ hst'[cur[i]] # hst[cur[i]]) =>
          sst'[cur[i]] # "accepted"]_vars
  /\ [][\A c \in Conn : hst'[c] = "running" /\ hst[c] # "running" =>
          hst[c] = "none" /\ sst[c] = "accepted" /\ sst'[c] = "rc" /\ Dispatched(req[c])]_vars
  /\ [][\A c \in Conn : hst[c] \notin {"none", "running"} => hst'[c] = hst[c]]_vars

\* a probe was answered and closed, and the loop has moved on to the handler
\* of another connection
C28_Witness ==
  \E j \in Inst : \E d \in Fwd :
      /\ sst[ProbeOf(j)] = "closed" /\ Len(out[ProbeOf(j)]) = 2
      /\ peer[d] = peer[ProbeOf(j)] /\ hst[d] = "running"

\* C30: a forwarder whose connection is refused ends with a failure in that
\* very step: nothing is written, printed or queued, and no service is
\* started; a forwarder that ended normally had connected.
C30_ForwarderConnectFailure ==
  /\ [][\A c \in Fwd : cpc[c] = "idle" /\ cpc'[c] # "idle" /\ ConnectTarget = 0 =>
          /\ cpc'[c] = "failed"
          /\ peer'[c] = 0
          /\ out' = out /\ stdout' = stdout /\ backlog' = backlog
          /\ ipc' = ipc /\ host' = host]_vars
  /\ [](\A c \in Fwd : cpc[c] = "done" => peer[c] # 0)

\* a forwarder failed to connect although a file sits at the socket path
C30_Witness ==
  \E c \in Fwd : cpc[c] = "failed" /\ peer[c] = 0 /\ sockFile # 0

\* C31: a forwarder whose Args the server could not parse never ends
\* normally: it prints nothing but the error text, it can always take its
\* next step, and the step that ends it is a failed read at the end of the
\* stream, after the error text was printed.
C31_ParseErrorFailsForwarder ==
  /\ [](\A c \in Fwd : ParseFails(c) =>
          /\ cpc[c] # "done"
          /\ IsPrefix(stdout[c], <<ErrText(req[c][2])>>)
          /\ cpc[c] = "wait" /\ sst[c] = "closed" => ENABLED FwdRecv(c)
          /\ cpc[c] = "failed" /\ out[c] # <<>> => stdout[c] = <<ErrText(req[c][2])>>)
  /\ [][\A c \in Fwd : ParseFails(c) /\ cpc[c] = "wait" /\ cpc'[c] \notin {"wait", "gone"} =>
          /\ cpc'[c] = "failed"
          /\ rd[c] = Len(out[c]) /\ ServerClosed(c)]_vars

\* the forwarder printed the error text and then failed, and the loop that
\* rejected its Args is at the select!
C31_Witness ==
  \E c \in Fwd : /\ ParseFails(c) /\ cpc[c] = "failed"
                 /\ stdout[c] = <<"usage">> /\ sst[c] = "closed"
                 /\ ipc[peer[c]] = "select"

\* C33 as claimed: once the token of a listener is retired, that listener
\* accepts no connection any more.
C33_NoConnectionAcceptedAfterRetire ==
  [][\A i \in Inst : \A c \in Conn :
        TokenRetired(i) /\ peer[c] = i /\ sst[c] = "backlog" => sst'[c] # "accepted"]_vars

\* C33 amended: the step that ends the serve retires the token; the token
\* branch of the select! is ready exactly when the token is retired; a loop
\* at the select! with the token retired and no connection ready leaves the
\* select! only by exiting, accepting nothing; and the exit through the token
\* branch drops the listener with everything still queued.  (A connection
\* that is ready as well may be accepted first.)
C33_ClosedChannelEndsLoop ==
  /\ [][\A i \in Inst : host[i] = "serving" /\ host'[i] # "serving" =>
          ~TokenRetired(i) /\ TokenRetired(i)']_vars
  /\ [](\A i \in Inst : ipc[i] = "select" => (ENABLED SelectShutdown(i) <=> TokenRetired(i)))
  /\ [][\A i \in Inst : ipc[i] = "select" /\ TokenRetired(i) /\ backlog[i] = <<>>
                          /\ ipc'[i] # "select" =>
          /\ ipc'[i] \in {"exited", "down"}
          /\ \A c \in Conn : sst'[c] = "accepted" => sst[c] = "accepted"]_vars
  /\ [][\A i \in Inst : ipc[i] = "select" /\ ipc'[i] = "exited" =>
          /\ TokenRetired(i)
          /\ backlog'[i] = <<>>
          /\ \A c \in Range(backlog[i]) : sst'[c] = "reset"]_vars

\* a loop that nobody ever connected to has left through the token branch
C33_Witness ==
  \E i \in Inst : /\ ipc[i] = "exited" /\ host[i] = "ended"
                  /\ \A c \in Conn : peer[c] # i

\* C32: a probe whose write of IdRequest fails answers None without
\* reading; a probe answers Some(pid) only by reading IdResponse(pid) as its
\* first frame; a probe that reads anything else, or whose read fails at the
\* end of the stream, aborts and answers neither None nor a pid.
C32_ProbeOutcomes ==
  /\ [][\A i \in Inst : ipc[i] = "connected" /\ ipc'[i] # "connected" =>
          IF sst[ProbeOf(i)] = "reset"
          THEN ipc'[i] = "start" /\ cpc'[ProbeOf(i)] = "none" /\ rd'[ProbeOf(i)] = 0
          ELSE ipc'[i] = "probing" /\ req'[ProbeOf(i)] = IdRequest]_vars
  /\ [][\A i \in Inst : ipc[i] = "probing" /\ ipc'[i] # "probing" =>
          LET c == ProbeOf(i) IN
          IF rd[c] < Len(out[c]) /\ out[c][rd[c] + 1][1] = "IdResponse"
          THEN /\ ipc'[i] = "declined" /\ cpc'[c] = "some"
               /\ found'[i] = out[c][rd[c] + 1][2]
          ELSE /\ ipc'[i] = "aborted" /\ cpc'[c] = "failed"
               /\ found'[i] = found[i]]_vars
  /\ [](\A i \in Inst : LET c == ProbeOf(i) IN
          /\ cpc[c] = "some" => /\ rd[c] = 1 /\ out[c][1] = IdResponse(found[i])
                                /\ req[c] = IdRequest
          /\ cpc[c] = "none" => rd[c] = 0 /\ req[c] = NoFrame
          /\ ipc[i] = "probing" /\ (rd[c] < Len(out[c]) \/ ServerClosed(c)) => ENABLED ProbeRecv(i))

\* one probe aborted on a frame of another variant, one on a frame that does
\* not decode or on the end of the stream, or answered None on a failed write
C32_Witness ==
  \E i, j \in Inst :
     /\ ipc[i] = "aborted" /\ rd[ProbeOf(i)] = 1 /\ out[ProbeOf(i)][1] = CloseSocket
     /\ \/ ipc[j] = "start" /\ sst[ProbeOf(j)] = "reset" /\ out[ProbeOf(j)] # <<>>
        \/ ipc[j] = "aborted" /\ rd[ProbeOf(j)] = 1 /\ out[ProbeOf(j)][1] = Garbage

\* C34 as claimed: while the serve task is parked on a Pending poll_accept
\* its waker is registered with the TCP listener, and every TCP connection
\* that is queued is eventually taken from the queue (unless the server ends
\* first), whether or not a handshake in flight completes.
C34_PendingWakesOnArrival ==
  /\ [](tsrv = "running" /\ ~woken => lwaker)
  /\ \A c \in TlsClients : (tcli[c] = "queued") ~> (tcli[c] # "queued" \/ tsrv = "failed")

\* C35 as claimed: the server gets an error item, and ends on it, only when
\* the TCP accept failed; no client's handshake is refused as an accept
\* error, and no handshake in flight is dropped because another one failed.
C35_OnlyTcpErrorsYielded ==
  /\ [][tsrv = "running" /\ tsrv' = "failed" =>
          /\ tcpq # <<>> /\ tcli'[Head(tcpq)] = "aborted"
          /\ \A c \in TlsClients : tcli'[c] # "refused"]_vars
  /\ [](\A c \in TlsClients : tcli[c] = "dropped" => \E d \in TlsClients : tcli[d] = "aborted")

\* C36 as claimed: when a burst is over and all its tasks have woken, the
\* script was loaded exactly once, by the task of the last event.
C36_BurstReloadsOnce ==
  over /\ wkn = evn => loads = 1 /\ loader = evn

\* C37: a reload whose load fails leaves the table as it is; no reload
\* empties a filled slot or removes a path; the entries of other paths are
\* not touched.
C37_ReloadKeepsHandlers ==
  /\ [][loads' = loads + 1 /\ lres' = "Err" => handlers' = handlers]_vars
  /\ [][/\ DOMAIN handlers' = DOMAIN handlers
        /\ \A p \in PyPaths :
             /\ handlers[p].get # 0 => handlers'[p].get # 0
             /\ handlers[p].post # 0 => handlers'[p].post # 0
             /\ handlers[p].ws # 0 => handlers'[p].ws # 0
             /\ p # BurstPath => handlers'[p] = handlers[p]]_vars
  /\ [](loads = 0 => \A p \in PyPaths : \A f \in {"get", "post", "ws"} : handlers[p][f] \in {0, 1})

\* a reload failed after an earlier one had replaced a handler, and another
\* reload loaded a script without the handler the table still holds
C37_Witness ==
  /\ loads >= 2 /\ lres = "Err"
  /\ handlers[BurstPath].get > 1
  /\ handlers[BurstPath].post = 1

\* the text up to the first "&"
RECURSIVE FirstParam(_)
FirstParam(q) ==
  IF q = <<>> \/ q[1] = "&" THEN <<>> ELSE <<q[1]>> \o FirstParam(Tail(q))
\* the value of the first api_token parameter of a query string, NoHeader
\* when there is none
RECURSIVE ApiTokenParam(_)
ApiTokenParam(q) ==
  LET f == FirstParam(q) IN
  IF StartsWith(f, KeyText \o <<"=">>) THEN SubSeq(f, Len(KeyText) + 2, Len(f))
  ELSE IF Len(f) = Len(q) THEN NoHeader
  ELSE ApiTokenParam(SubSeq(q, Len(f) + 2, Len(q)))
\* the token a request presents, NoHeader when it presents none
Presented(rq) ==
  IF rq.auth # NoHeader
  THEN IF rq.auth # NonUtf8Header /\ StartsWith(rq.auth, BearerText)
       THEN SubSeq(rq.auth, Len(BearerText) + 1, Len(rq.auth))
       ELSE NoHeader
  ELSE IF rq.query = NoHeader THEN NoHeader ELSE ApiTokenParam(rq.query)

\* C38 as claimed: a request to a non-public path is admitted only when the
\* token it presents equals the configured token; every other request to
\* such a path is answered 401.
C38_AdmitsOnlyExactToken ==
  ares # "none" /\ ~IsPublic(areq.path) =>
     IF Presented(areq) = atok THEN ares \in {"ok", "401"} ELSE ares = "401"

====
